---------------------------- MODULE Spec2Model ----------------------------
(***************************************************************************)
(* Vote program (programs/native/vote/src/lib.rs), leader finality         *)
(* computation and its polling thread                                      *)
(* (src/compute_leader_finality_service.rs), and the PoH service           *)
(* (src/poh_service.rs) over a PoH recorder.                               *)
(*                                                                         *)
(* Public keys are small naturals.  Account userdata is a sequence of      *)
(* naturals standing for the stored words.  Timestamps are milliseconds    *)
(* on a bounded clock.                                                     *)
(***************************************************************************)
EXTENDS Integers, Sequences, FiniteSets, TLC

VARIABLES
    accounts,                        \* bank account table: key -> [owner, userdata]
    stake,                           \* bank.get_stake: node id -> tokens
    leader_id,                       \* the leader whose own vote account is skipped
    now,                             \* timing::timestamp(), milliseconds
    tick_ts,                         \* timestamp recorded at each registered tick height
    bank_finality,                   \* bank.finality()
    last_valid_validator_timestamp,  \* the polling loop's local
    op,                              \* the operation that ran last
    ix,                              \* last vote instruction: inputs and result
    submitted,                       \* SpecVote: votes accepted per account since registration
    cycle,                           \* last compute_finality call: inputs and outcome
    step,                            \* position in the test_compute_finality script
    exit,                            \* the finality service's exit flag
    finality_pc,                     \* where the finality thread is in its loop
    loads,                           \* exit.load calls of the loop iteration under way
    started_after_exit,              \* compute_finality calls begun after exit was set
    config,                          \* PohService::new: the cadence policy
    poh_recorder,                    \* recorder: [id, num_hashes, tick_height, pending]
    failing,                         \* the recorder's calls return errors from now on
    delivered,                       \* entries received downstream, in order
    poh_pc,                          \* where the tick_producer thread is
    hashed,                          \* poh.hash() calls of the batch under way
    poh_result,                      \* tick_producer's return value, the join result
    poh_exit,                        \* PohService.poh_exit
    expected,                        \* the chain id each recording client read last
    recorded,                        \* per recorded transaction, the tick height then
    call,                            \* the recorder or service call that ran last
    exit_called,                     \* PohService::exit was called
    ticks_after_exit                 \* ticks delivered after PohService::exit

bank_vars == <<accounts, stake, leader_id, now, tick_ts, bank_finality,
               last_valid_validator_timestamp, op, ix, submitted, cycle, step>>

finality_thread_vars == <<exit, finality_pc, loads, started_after_exit>>

poh_vars == <<config, poh_recorder, failing, delivered, poh_pc, hashed, poh_result,
              poh_exit, expected, recorded, call, exit_called, ticks_after_exit>>

vars == <<bank_vars, finality_thread_vars, poh_vars>>

-----------------------------------------------------------------------------
(* Bounds of the model *)

MaxTime == 2
MaxTickHeight == 2
MaxStake == 2
MaxVoteTick == 2
ExtraVotes == 1

(* Capacity of the vote queue; the model runs with a small capacity. *)
MAX_VOTE_HISTORY == 2

(* std::usize::MAX, the bank's finality before any supermajority was seen. *)
USIZE_MAX == 2147483647

MaxSubmitted == MAX_VOTE_HISTORY + ExtraVotes

-----------------------------------------------------------------------------
(* Helpers *)

None == [some |-> FALSE, value |-> 0]
Some(v) == [some |-> TRUE, value |-> v]

RECURSIVE SumSeq(_)
SumSeq(s) == IF s = <<>> THEN 0 ELSE Head(s) + SumSeq(Tail(s))

Min(a, b) == IF a < b THEN a ELSE b

SetMax(S) == CHOOSE x \in S : \A y \in S : y <= x

(* The last n elements of s *)
LastN(s, n) == SubSeq(s, Len(s) - n + 1, Len(s))

-----------------------------------------------------------------------------
(* solana_sdk::vote_program *)

VOTE_PROGRAM_ID == "Vote"
SYSTEM_PROGRAM_ID == "System"

check_id(owner) == owner = VOTE_PROGRAM_ID

(* VoteProgram::serialize: node id, number of votes, then the votes' tick heights *)
serialize(vote_state) ==
    <<vote_state.node_id, Len(vote_state.votes)>> \o vote_state.votes

(* VoteProgram::deserialize: fails on bytes that are not a serialized state *)
deserialize(userdata) ==
    IF Len(userdata) >= 2 /\ userdata[2] = Len(userdata) - 2
    THEN [ok |-> TRUE,
          state |-> [node_id |-> userdata[1],
                     votes |-> SubSeq(userdata, 3, Len(userdata))]]
    ELSE [ok |-> FALSE, state |-> [node_id |-> 0, votes |-> <<>>]]

(* Instruction data: <<0>> is RegisterAccount, <<1, t>> is NewVote(Vote{tick_height: t}) *)
RegisterAccountData == <<0>>
NewVoteData(t) == <<1, t>>

decode_instruction(data) ==
    IF data = <<0>> THEN [ok |-> TRUE, tag |-> "RegisterAccount", tick_height |-> 0]
    ELSE IF Len(data) = 2 /\ data[1] = 1
         THEN [ok |-> TRUE, tag |-> "NewVote", tick_height |-> data[2]]
         ELSE [ok |-> FALSE, tag |-> "Invalid", tick_height |-> 0]

-----------------------------------------------------------------------------
(* programs/native/vote/src/lib.rs *)

(* KeyedAccount::signer_key *)
signer_key(keyed_account) ==
    IF keyed_account.signer THEN Some(keyed_account.key) ELSE None

(* A queue that drops its newest vote at capacity *)
push_vote_pop_back(votes, vote) ==
    Append(IF Len(votes) = MAX_VOTE_HISTORY
           THEN SubSeq(votes, 1, Len(votes) - 1) ELSE votes, vote)

(* votes.pop_front() at capacity, then votes.push_back(vote) *)
push_vote(votes, vote) ==
    Append(IF Len(votes) = MAX_VOTE_HISTORY THEN Tail(votes) ELSE votes, vote)

WithUserdata(keyed_accounts, i, userdata) ==
    [keyed_accounts EXCEPT ![i].account.userdata = userdata]

(* A registration that records the target's key as the node id *)
register_account_target_id(keyed_accounts) ==
    IF ~check_id(keyed_accounts[2].account.owner)
    THEN [result |-> "InvalidArgument", keyed_accounts |-> keyed_accounts]
    ELSE [result |-> "Ok",
          keyed_accounts |->
              WithUserdata(keyed_accounts, 2,
                  serialize([votes |-> <<>>, node_id |-> keyed_accounts[2].key]))]

register_account(keyed_accounts) ==
    IF ~check_id(keyed_accounts[2].account.owner)
    THEN [result |-> "InvalidArgument", keyed_accounts |-> keyed_accounts]
    ELSE [result |-> "Ok",
          keyed_accounts |->
              WithUserdata(keyed_accounts, 2,
                  serialize([votes |-> <<>>,
                             node_id |-> signer_key(keyed_accounts[1]).value]))]

(* A vote that reads the stored state before it looks at the owner *)
new_vote_read_first(keyed_accounts, vote) ==
    LET d == deserialize(keyed_accounts[1].account.userdata) IN
    IF ~d.ok
    THEN [result |-> "InvalidUserdata", keyed_accounts |-> keyed_accounts]
    ELSE IF ~check_id(keyed_accounts[1].account.owner)
    THEN [result |-> "InvalidArgument", keyed_accounts |-> keyed_accounts]
    ELSE [result |-> "Ok",
          keyed_accounts |->
              WithUserdata(keyed_accounts, 1,
                  serialize([votes |-> push_vote(d.state.votes, vote),
                             node_id |-> d.state.node_id]))]

(* A vote that starts a fresh state when the stored one does not deserialize,
   and still reports the error *)
new_vote_write_first(keyed_accounts, vote) ==
    IF ~check_id(keyed_accounts[1].account.owner)
    THEN [result |-> "InvalidArgument", keyed_accounts |-> keyed_accounts]
    ELSE LET d == deserialize(keyed_accounts[1].account.userdata)
             written == WithUserdata(keyed_accounts, 1,
                            serialize([votes |-> push_vote(d.state.votes, vote),
                                       node_id |-> d.state.node_id]))
         IN [result |-> IF d.ok THEN "Ok" ELSE "InvalidUserdata",
             keyed_accounts |-> written]

new_vote(keyed_accounts, vote) ==
    IF ~check_id(keyed_accounts[1].account.owner)
    THEN [result |-> "InvalidArgument", keyed_accounts |-> keyed_accounts]
    ELSE LET d == deserialize(keyed_accounts[1].account.userdata) IN
         IF ~d.ok
         THEN [result |-> "InvalidUserdata", keyed_accounts |-> keyed_accounts]
         ELSE [result |-> "Ok",
               keyed_accounts |->
                   WithUserdata(keyed_accounts, 1,
                       serialize([votes |-> push_vote(d.state.votes, vote),
                                  node_id |-> d.state.node_id]))]

(* An entrypoint that decodes the instruction before it looks at the signer *)
entrypoint_decode_first(keyed_accounts, data) ==
    LET instruction == decode_instruction(data) IN
    IF ~instruction.ok
    THEN [result |-> "InvalidUserdata", keyed_accounts |-> keyed_accounts]
    ELSE IF ~signer_key(keyed_accounts[1]).some
    THEN [result |-> "InvalidArgument", keyed_accounts |-> keyed_accounts]
    ELSE IF instruction.tag = "RegisterAccount" THEN register_account(keyed_accounts)
    ELSE new_vote(keyed_accounts, instruction.tick_height)

(* entrypoint: the result and the keyed accounts as the call leaves them *)
entrypoint(keyed_accounts, data) ==
    IF ~signer_key(keyed_accounts[1]).some
    THEN [result |-> "InvalidArgument", keyed_accounts |-> keyed_accounts]
    ELSE LET instruction == decode_instruction(data) IN
         CASE instruction.tag = "RegisterAccount" -> register_account(keyed_accounts)
           [] instruction.tag = "NewVote" ->
                  new_vote(keyed_accounts, instruction.tick_height)
           [] OTHER -> [result |-> "InvalidUserdata", keyed_accounts |-> keyed_accounts]

-----------------------------------------------------------------------------
(* One vote instruction run against the account table *)

KeyedAccounts(keys, signed) ==
    [i \in 1..Len(keys) |->
        [key |-> keys[i], signer |-> (i = 1 /\ signed), account |-> accounts[keys[i]]]]

NoCycle ==
    [ok |-> FALSE, timestamp |-> 0, tick_height |-> None,
     total_stake |-> 0, ticks_and_stakes |-> <<>>]

NoInstruction == [keys |-> <<>>, signed |-> FALSE, tag |-> "None", result |-> "None"]

process_instruction(keys, signed, data) ==
    LET r == entrypoint(KeyedAccounts(keys, signed), data) IN
    /\ accounts' = [k \in DOMAIN accounts |->
                       IF \E i \in 1..Len(keys) : keys[i] = k
                       THEN r.keyed_accounts[CHOOSE i \in 1..Len(keys) : keys[i] = k].account
                       ELSE accounts[k]]
    /\ ix' = [keys |-> keys, signed |-> signed, tag |-> decode_instruction(data).tag,
              result |-> r.result]
    /\ op' = "instruction"
    /\ cycle' = NoCycle
    /\ UNCHANGED <<stake, leader_id, now, tick_ts, bank_finality,
                   last_valid_validator_timestamp>>
    /\ UNCHANGED <<finality_thread_vars, poh_vars>>

(* Votes accepted by each account since it was last registered *)
Record(keys, data) ==
    LET instruction == decode_instruction(data) IN
    submitted' =
        IF ix'.result # "Ok" THEN submitted
        ELSE IF instruction.tag = "RegisterAccount"
             THEN [submitted EXCEPT ![keys[2]] = <<>>]
             ELSE [submitted EXCEPT ![keys[1]] = Append(@, instruction.tick_height)]

RECURSIVE SumOver(_, _)
SumOver(f, S) ==
    IF S = {} THEN 0
    ELSE LET x == CHOOSE y \in S : TRUE IN f[x] + SumOver(f, S \ {x})

Submissions == SumOver([k \in DOMAIN submitted |-> Len(submitted[k])], DOMAIN submitted)

InstructionData ==
    {RegisterAccountData, <<2>>, <<>>} \cup {NewVoteData(t) : t \in 1..MaxVoteTick}

KeyLists(Keys) ==
    {<<a>> : a \in Keys} \cup {kk \in Keys \X Keys : kk[1] # kk[2]}

(* RegisterAccount reads keyed_accounts[1], so it is sent with two accounts;
   the other instructions read keyed_accounts[0] alone and are sent with one *)
WellFormed(keys, data) ==
    Len(keys) = IF decode_instruction(data).tag = "RegisterAccount" THEN 2 ELSE 1

(* Instructions of every kind, while the record of accepted votes has room *)
VoteInstruction ==
    \E keys \in KeyLists(DOMAIN accounts), signed \in BOOLEAN, data \in InstructionData :
        /\ WellFormed(keys, data)
        /\ Submissions < MaxSubmitted
        /\ process_instruction(keys, signed, data)
        /\ Record(keys, data)
        /\ UNCHANGED step

-----------------------------------------------------------------------------
(* The two background threads before they run *)

(* ComputeLeaderFinalityService::new: the thread enters its loop with the
   caller's exit flag, which starts false *)
FinalityThreadNew ==
    /\ exit = FALSE
    /\ finality_pc = "check"
    /\ loads = 0
    /\ started_after_exit = 0

(* enum Config *)
Tick(num) == [kind |-> "Tick", num |-> num]
Sleep == [kind |-> "Sleep", num |-> 0]

(* The chain id is the list of what was hashed into it: 0 for an idle hash,
   a transaction's number for a record *)
InitialId == <<>>

(* PohRecorder::new(bank, entry_sender, prev_id, None) *)
PohRecorderNew ==
    [id |-> InitialId, num_hashes |-> 0, tick_height |-> 0, pending |-> <<>>]

Clients == {1, 2}

NoCall == [op |-> "none", result |-> "none", expected |-> InitialId]

(* The first statement of tick_producer's loop under a policy *)
loop_top(cfg) ==
    IF cfg.kind = "Sleep" THEN "sleep"
    ELSE IF cfg.num > 1 THEN "hash" ELSE "tick"

(* PohService::new under a policy, nothing called yet *)
PohServiceNew(cfg) ==
    /\ config = cfg
    /\ poh_recorder = PohRecorderNew
    /\ failing = FALSE
    /\ delivered = <<>>
    /\ poh_pc = loop_top(cfg)
    /\ hashed = 0
    /\ poh_result = "running"
    /\ poh_exit = FALSE
    /\ expected = [c \in Clients |-> InitialId]
    /\ recorded = <<>>
    /\ call = NoCall
    /\ exit_called = FALSE
    /\ ticks_after_exit = 0

(* Config::default() *)
PohServiceIdle == PohServiceNew(Sleep)

-----------------------------------------------------------------------------
(* The vote program alone: a validator key and two vote accounts *)

VoteKeys == {1, 2, 3}

VoteAccounts ==
    [k \in VoteKeys |->
        [owner |-> IF k = 1 THEN SYSTEM_PROGRAM_ID ELSE VOTE_PROGRAM_ID,
         userdata |-> <<>>]]

InitVote ==
    /\ accounts = VoteAccounts
    /\ stake = [n \in VoteKeys |-> 1]
    /\ leader_id = 0
    /\ now = 1
    /\ tick_ts = <<>>
    /\ bank_finality = USIZE_MAX
    /\ last_valid_validator_timestamp = 0
    /\ op = "bank"
    /\ ix = NoInstruction
    /\ submitted = [k \in VoteKeys |-> <<>>]
    /\ cycle = NoCycle
    /\ step = 0
    /\ FinalityThreadNew
    /\ PohServiceIdle

NextVote == VoteInstruction

SpecVote == InitVote /\ [][NextVote]_vars

-----------------------------------------------------------------------------
(* Bank: registered ticks, their timestamps, stake *)

(* Bank::get_stake: the tokens of the node's account *)
get_stake(stk, node_id) == IF node_id \in DOMAIN stk THEN stk[node_id] ELSE 0

(* The timestamp recorded when the tick height was registered, if it was *)
tick_height_to_timestamp(tts, tick_height) ==
    IF tick_height \in 1..Len(tts) THEN Some(tts[tick_height]) ELSE None

(* Pairs (tick height, stake) in descending order of tick height *)
RECURSIVE insert_descending(_, _)
insert_descending(sorted, pair) ==
    IF sorted = <<>> THEN <<pair>>
    ELSE IF pair[1] >= Head(sorted)[1] THEN <<pair>> \o sorted
    ELSE <<Head(sorted)>> \o insert_descending(Tail(sorted), pair)

RECURSIVE sort_descending(_)
sort_descending(pairs) ==
    IF pairs = <<>> THEN <<>>
    ELSE insert_descending(sort_descending(Tail(pairs)), Head(pairs))

(* Walk the sorted pairs, adding up stake; the tick height at which the sum
   first reaches the threshold *)
RECURSIVE first_reaching(_, _, _)
first_reaching(sorted, total, super_majority_stake) ==
    IF sorted = <<>> THEN None
    ELSE LET sum == total + Head(sorted)[2] IN
         IF sum >= super_majority_stake THEN Some(Head(sorted)[1])
         ELSE first_reaching(Tail(sorted), sum, super_majority_stake)

Stakes(ticks_and_stakes) ==
    [i \in 1..Len(ticks_and_stakes) |-> ticks_and_stakes[i][2]]

(* The confirmed tick height: none when the voters hold no stake at all *)
supermajority_tick_height(ticks_and_stakes, super_majority_stake) ==
    IF SumSeq(Stakes(ticks_and_stakes)) = 0 THEN None
    ELSE first_reaching(sort_descending(ticks_and_stakes), 0, super_majority_stake)

(* Bank::get_finality_timestamp *)
get_finality_timestamp(tts, ticks_and_stakes, super_majority_stake) ==
    LET T == supermajority_tick_height(ticks_and_stakes, super_majority_stake) IN
    IF T.some THEN tick_height_to_timestamp(tts, T.value) ELSE None

-----------------------------------------------------------------------------
(* src/compute_leader_finality_service.rs *)

(* A closure that counts a validator's stake only once it has voted *)
filter_map_account_voters_only(account, stk, leader) ==
    LET d == deserialize(account.userdata)
        validator_stake == get_stake(stk, d.state.node_id)
    IN IF check_id(account.owner) /\ d.ok /\ leader # d.state.node_id
          /\ d.state.votes # <<>>
       THEN [stake |-> validator_stake,
             pair |-> Some(<<d.state.votes[Len(d.state.votes)], validator_stake>>)]
       ELSE [stake |-> 0, pair |-> None]

(* A closure that yields the oldest vote of the queue instead of the newest *)
filter_map_account_oldest_vote(account, stk, leader) ==
    LET d == deserialize(account.userdata)
        validator_stake == get_stake(stk, d.state.node_id)
    IN IF check_id(account.owner) /\ d.ok /\ leader # d.state.node_id
       THEN [stake |-> validator_stake,
             pair |-> IF d.state.votes = <<>> THEN None
                      ELSE Some(<<d.state.votes[1], validator_stake>>)]
       ELSE [stake |-> 0, pair |-> None]

(* The filter_map closure on one account: the stake it adds to total_stake
   and the pair it yields, if any *)
filter_map_account(account, stk, leader) ==
    LET d == deserialize(account.userdata)
        validator_stake == get_stake(stk, d.state.node_id)
    IN IF check_id(account.owner) /\ d.ok /\ leader # d.state.node_id
       THEN [stake |-> validator_stake,
             pair |-> IF d.state.votes = <<>> THEN None
                      ELSE Some(<<d.state.votes[Len(d.state.votes)], validator_stake>>)]
       ELSE [stake |-> 0, pair |-> None]

(* accounts.values().filter_map(..).collect(), with total_stake summed on the way *)
RECURSIVE collect(_, _, _, _)
collect(accts, keys, stk, leader) ==
    IF keys = {} THEN [total_stake |-> 0, ticks_and_stakes |-> <<>>]
    ELSE LET k == CHOOSE x \in keys : \A y \in keys : x <= y
             one == filter_map_account(accts[k], stk, leader)
             rest == collect(accts, keys \ {k}, stk, leader)
         IN [total_stake |-> one.stake + rest.total_stake,
             ticks_and_stakes |->
                 (IF one.pair.some THEN <<one.pair.value>> ELSE <<>>)
                     \o rest.ticks_and_stakes]

(* A threshold of a third of the stake *)
super_majority_stake_third(total_stake) == total_stake \div 3

(* A threshold of half the stake *)
super_majority_stake_half(total_stake) == total_stake \div 2

super_majority_stake(total_stake) == (2 * total_stake) \div 3

get_last_supermajority_timestamp(accts, stk, leader, tts) ==
    LET c == collect(accts, DOMAIN accts, stk, leader)
        found == get_finality_timestamp(tts, c.ticks_and_stakes,
                                        super_majority_stake(c.total_stake))
    IN IF found.some THEN [ok |-> TRUE, timestamp |-> found.value]
       ELSE [ok |-> FALSE, timestamp |-> 0]

(* A cycle that never publishes the finality to the bank *)
compute_finality_unpublished(accts, stk, leader, tts, time, last, finality) ==
    LET r == get_last_supermajority_timestamp(accts, stk, leader, tts) IN
    IF r.ok
    THEN [last_valid_validator_timestamp |-> r.timestamp, finality |-> finality]
    ELSE [last_valid_validator_timestamp |-> last, finality |-> finality]

(* A cycle that zeroes the finality state when it finds no supermajority *)
compute_finality_reset(accts, stk, leader, tts, time, last, finality) ==
    LET r == get_last_supermajority_timestamp(accts, stk, leader, tts) IN
    IF r.ok
    THEN [last_valid_validator_timestamp |-> r.timestamp, finality |-> time - r.timestamp]
    ELSE [last_valid_validator_timestamp |-> 0, finality |-> USIZE_MAX]

(* compute_finality: the caller's timestamp and the bank's finality after the call *)
compute_finality(accts, stk, leader, tts, time, last, finality) ==
    LET r == get_last_supermajority_timestamp(accts, stk, leader, tts) IN
    IF r.ok
    THEN [last_valid_validator_timestamp |-> r.timestamp, finality |-> time - r.timestamp]
    ELSE [last_valid_validator_timestamp |-> last, finality |-> finality]

run_compute_finality ==
    LET r == get_last_supermajority_timestamp(accounts, stake, leader_id, tick_ts)
        c == collect(accounts, DOMAIN accounts, stake, leader_id)
        after == compute_finality(accounts, stake, leader_id, tick_ts, now,
                                  last_valid_validator_timestamp, bank_finality)
    IN /\ last_valid_validator_timestamp' = after.last_valid_validator_timestamp
       /\ bank_finality' = after.finality
       /\ cycle' = [ok |-> r.ok, timestamp |-> r.timestamp,
                    tick_height |-> supermajority_tick_height(c.ticks_and_stakes,
                                        super_majority_stake(c.total_stake)),
                    total_stake |-> c.total_stake,
                    ticks_and_stakes |-> c.ticks_and_stakes]
       /\ op' = "compute_finality"
       /\ ix' = NoInstruction
       /\ UNCHANGED <<accounts, stake, leader_id, now, tick_ts, submitted>>

(* One cycle of the polling loop *)
ComputeFinality ==
    run_compute_finality /\ UNCHANGED <<step, finality_thread_vars, poh_vars>>

(* bank.register_tick: the next tick height gets the current time *)
register_tick(tts, time) == Append(tts, time)

RegisterTick ==
    /\ Len(tick_ts) < MaxTickHeight
    /\ tick_ts' = register_tick(tick_ts, now)
    /\ op' = "bank"
    /\ ix' = NoInstruction
    /\ cycle' = NoCycle
    /\ UNCHANGED <<accounts, stake, leader_id, now, bank_finality,
                   last_valid_validator_timestamp, submitted, step>>
    /\ UNCHANGED <<finality_thread_vars, poh_vars>>

(* Time passes *)
AdvanceClock ==
    /\ now < MaxTime
    /\ now' = now + 1
    /\ op' = "bank"
    /\ ix' = NoInstruction
    /\ cycle' = NoCycle
    /\ UNCHANGED <<accounts, stake, leader_id, tick_ts, bank_finality,
                   last_valid_validator_timestamp, submitted, step>>
    /\ UNCHANGED <<finality_thread_vars, poh_vars>>

-----------------------------------------------------------------------------
(* The finality computation over a leader, two validators that vote and one
   that does not, each with a registered vote account, and stakes of every
   size up to MaxStake *)

Leader == 1
Validators == {2, 3}
Bystander == 4
Nodes == {Leader, Bystander} \cup Validators
VoteAccountOf(node) == node + 10

Registered(node) == serialize([votes |-> <<>>, node_id |-> node])

FinalityAccounts ==
    [k \in {Bystander} \cup {VoteAccountOf(n) : n \in Nodes} |->
        IF k \in Nodes
        THEN [owner |-> SYSTEM_PROGRAM_ID, userdata |-> <<>>]
        ELSE [owner |-> VOTE_PROGRAM_ID, userdata |-> Registered(k - 10)]]

InitFinality ==
    /\ accounts = FinalityAccounts
    /\ stake \in [Nodes -> 0..MaxStake]
    /\ stake[Leader] = MaxStake
    /\ leader_id = Leader
    /\ now = 1
    /\ tick_ts = <<>>
    /\ bank_finality = USIZE_MAX
    /\ last_valid_validator_timestamp = 0
    /\ op = "bank"
    /\ ix = NoInstruction
    /\ submitted = [k \in DOMAIN FinalityAccounts |-> <<>>]
    /\ cycle = NoCycle
    /\ step = 0
    /\ FinalityThreadNew
    /\ PohServiceIdle

(* A validator votes through its vote account *)
ValidatorVote ==
    \E n \in Validators, t \in 1..MaxVoteTick :
        /\ process_instruction(<<VoteAccountOf(n)>>, TRUE, NewVoteData(t))
        /\ UNCHANGED <<submitted, step>>

(* The leader votes for the newest tick height *)
LeaderVote ==
    /\ process_instruction(<<VoteAccountOf(Leader)>>, TRUE, NewVoteData(MaxVoteTick))
    /\ UNCHANGED <<submitted, step>>

NextFinality ==
    \/ ValidatorVote
    \/ LeaderVote
    \/ ComputeFinality
    \/ RegisterTick
    \/ AdvanceClock

SpecFinality == InitFinality /\ [][NextFinality]_vars

-----------------------------------------------------------------------------
(* ComputeLeaderFinalityService::new: the polling thread, while a validator
   votes for the newest tick, ticks are registered, time passes and the owner
   of the exit flag sets it *)

(* A loop without the break *)
polling_loop_no_break(pc, exit_flag) ==
    CASE pc = "check" -> "compute"
      [] pc = "compute" -> "sleep"
      [] pc = "sleep" -> "check"
      [] OTHER -> pc

(* The loop's control flow: the statement that follows the one at pc *)
polling_loop(pc, exit_flag) ==
    CASE pc = "check" -> IF exit_flag THEN "done" ELSE "compute"
      [] pc = "compute" -> "sleep"
      [] pc = "sleep" -> "check"
      [] OTHER -> pc

(* if exit.load(Ordering::Relaxed) { break; } *)
ServiceCheck ==
    /\ finality_pc = "check"
    /\ finality_pc' = polling_loop(finality_pc, exit)
    /\ loads' = loads + 1
    /\ UNCHANGED <<exit, started_after_exit, bank_vars, poh_vars>>

(* Self::compute_finality(&bank, leader_id, &mut last_valid_validator_timestamp) *)
ServiceCompute ==
    /\ finality_pc = "compute"
    /\ run_compute_finality
    /\ finality_pc' = polling_loop(finality_pc, exit)
    /\ started_after_exit' = started_after_exit + (IF exit THEN 1 ELSE 0)
    /\ UNCHANGED <<exit, loads, step, poh_vars>>

(* sleep(Duration::from_millis(COMPUTE_FINALITY_MS)), which ends the iteration *)
ServiceSleep ==
    /\ finality_pc = "sleep"
    /\ finality_pc' = polling_loop(finality_pc, exit)
    /\ loads' = 0
    /\ UNCHANGED <<exit, started_after_exit, bank_vars, poh_vars>>

ServiceThread == ServiceCheck \/ ServiceCompute \/ ServiceSleep

(* The owner of the flag stores true *)
SetExit ==
    /\ ~exit
    /\ exit' = TRUE
    /\ UNCHANGED <<finality_pc, loads, started_after_exit, bank_vars, poh_vars>>

(* The validator that votes while the thread runs *)
ServiceVoter == CHOOSE n \in Validators : \A m \in Validators : n <= m

(* It votes for the newest registered tick height *)
ServiceVote ==
    /\ tick_ts # <<>>
    /\ process_instruction(<<VoteAccountOf(ServiceVoter)>>, TRUE,
                           NewVoteData(Len(tick_ts)))
    /\ UNCHANGED <<submitted, step>>

(* The voter holds MaxStake tokens, the other validator and the bystander one
   each *)
InitService ==
    /\ InitFinality
    /\ stake[ServiceVoter] = MaxStake
    /\ \A n \in Nodes \ {Leader, ServiceVoter} : stake[n] = 1

NextService ==
    \/ ServiceCheck
    \/ ServiceCompute
    \/ ServiceSleep
    \/ SetExit
    \/ ServiceVote
    \/ RegisterTick
    \/ AdvanceClock

(* A step of the thread, seen on its position alone: every step of
   ServiceThread is one, and no other step of NextService moves finality_pc *)
ServiceStep == finality_pc' = polling_loop(finality_pc, exit)

(* The thread is scheduled: a compute_finality call and a sleep end, and the
   statement after them runs *)
SpecService == InitService /\ [][NextService]_vars /\ WF_finality_pc(ServiceStep)

-----------------------------------------------------------------------------
(* tests::test_compute_finality: ten ticks a sleep apart, ten validators of
   stake 1 with a vote account each, the first six voting for tick heights
   1..6; a cycle; the eighth validator votes for tick height 7; a cycle *)

NumValidators == 10
NumVoting == 6
LateVoter == 8
LateTick == 7
MaxOversleep == 2

ScenarioNodes == 1..NumValidators
DummyLeader == 0

ScenarioAccounts ==
    [k \in ScenarioNodes \cup {VoteAccountOf(n) : n \in ScenarioNodes} |->
        [owner |-> IF k \in ScenarioNodes THEN SYSTEM_PROGRAM_ID ELSE VOTE_PROGRAM_ID,
         userdata |-> <<>>]]

RECURSIVE Creations(_)
Creations(i) ==
    IF i > NumValidators THEN <<>>
    ELSE <<[kind |-> "register", node |-> i, tick_height |-> 0]>>
         \o (IF i <= NumVoting
             THEN <<[kind |-> "vote", node |-> i, tick_height |-> i]>> ELSE <<>>)
         \o Creations(i + 1)

Script ==
    [i \in 1..NumValidators |-> [kind |-> "tick", node |-> 0, tick_height |-> 0]]
    \o Creations(1)
    \o <<[kind |-> "compute", node |-> 0, tick_height |-> 0],
         [kind |-> "vote", node |-> LateVoter, tick_height |-> LateTick],
         [kind |-> "compute", node |-> 0, tick_height |-> 0]>>

Command == Script[step + 1]
FirstCycleDone == Len(Script) - 2
SecondCycleDone == Len(Script)

InitScenario ==
    /\ accounts = ScenarioAccounts
    /\ stake = [n \in ScenarioNodes |-> 1]
    /\ leader_id = DummyLeader
    /\ now = 1
    /\ tick_ts = <<>>
    /\ bank_finality = USIZE_MAX
    /\ last_valid_validator_timestamp = 0
    /\ op = "bank"
    /\ ix = NoInstruction
    /\ submitted = [k \in DOMAIN ScenarioAccounts |-> <<>>]
    /\ cycle = NoCycle
    /\ step = 0
    /\ FinalityThreadNew
    /\ PohServiceIdle

(* bank.register_tick(&last_id); sleep(Duration::from_millis(1)): the sleeps
   last a millisecond each and at most MaxOversleep more in total *)
ScriptTick ==
    /\ step < Len(Script)
    /\ Command.kind = "tick"
    /\ tick_ts' = register_tick(tick_ts, now)
    /\ \E slept \in 1..(1 + MaxOversleep) :
           /\ now' = now + slept
           /\ now' <= 1 + Len(tick_ts') + MaxOversleep
    /\ op' = "bank"
    /\ ix' = NoInstruction
    /\ cycle' = NoCycle
    /\ step' = step + 1
    /\ UNCHANGED <<accounts, stake, leader_id, bank_finality,
                   last_valid_validator_timestamp, submitted>>
    /\ UNCHANGED <<finality_thread_vars, poh_vars>>

(* create_vote_account *)
ScriptRegister ==
    /\ step < Len(Script)
    /\ Command.kind = "register"
    /\ process_instruction(<<Command.node, VoteAccountOf(Command.node)>>, TRUE,
                           RegisterAccountData)
    /\ step' = step + 1
    /\ UNCHANGED submitted

(* Transaction::vote_new *)
ScriptVote ==
    /\ step < Len(Script)
    /\ Command.kind = "vote"
    /\ process_instruction(<<VoteAccountOf(Command.node)>>, TRUE,
                           NewVoteData(Command.tick_height))
    /\ step' = step + 1
    /\ UNCHANGED submitted

(* ComputeLeaderFinalityService::compute_finality *)
ScriptCompute ==
    /\ step < Len(Script)
    /\ Command.kind = "compute"
    /\ run_compute_finality
    /\ step' = step + 1
    /\ UNCHANGED <<finality_thread_vars, poh_vars>>

NextScenario == ScriptTick \/ ScriptRegister \/ ScriptVote \/ ScriptCompute

SpecScenario == InitScenario /\ [][NextScenario]_vars

-----------------------------------------------------------------------------
(* PoH recorder: record, tick and hash under one guard, over the chain state
   and the entries not yet delivered *)

MaxHashesPerTick == 2
MaxPohTicks == 2
MaxRecords == 2

(* H(id) *)
hash(id) == Append(id, 0)

(* digest(transactions), of the one transaction a client records at a time *)
digest(transactions) == transactions[1]

(* H(h, digest) *)
mixin(h, d) == Append(h, d)

Entry(id, num_hashes, transactions) ==
    [id |-> id, num_hashes |-> num_hashes, transactions |-> transactions]

is_tick(entry) == entry.transactions = <<>>

(* A hash that the counter misses *)
advance_hash_uncounted(poh) == [poh EXCEPT !.id = hash(@)]

(* advance_hash, which poh.hash() runs under the guard *)
advance_hash(poh) == [poh EXCEPT !.id = hash(@), !.num_hashes = @ + 1]

(* A record that takes any prior id *)
record_any_prior_id(poh, expected_prior_id, transactions) ==
    LET id == mixin(hash(poh.id), digest(transactions)) IN
    [result |-> "Ok",
     poh |-> [poh EXCEPT !.id = id,
                         !.pending = Append(@, Entry(id, 1, transactions))]]

(* record, from the moment it holds the guard *)
record(poh, expected_prior_id, transactions) ==
    IF poh.id # expected_prior_id
    THEN [result |-> "Conflict", poh |-> poh]
    ELSE LET id == mixin(hash(poh.id), digest(transactions)) IN
         [result |-> "Ok",
          poh |-> [poh EXCEPT !.id = id,
                              !.pending = Append(@, Entry(id, 1, transactions))]]

(* A tick that delivers its own entry alone and forgets the pending ones *)
tick_drops_pending(poh) ==
    [poh |-> [poh EXCEPT !.num_hashes = 0, !.tick_height = @ + 1, !.pending = <<>>],
     batch |-> <<Entry(poh.id, poh.num_hashes, <<>>)>>]

(* tick, from the moment it holds the guard: the state it leaves and the batch
   it delivers *)
tick(poh) ==
    [poh |-> [poh EXCEPT !.num_hashes = 0, !.tick_height = @ + 1, !.pending = <<>>],
     batch |-> Append(poh.pending, Entry(poh.id, poh.num_hashes, <<>>))]

-----------------------------------------------------------------------------
(* src/poh_service.rs *)

(* A thread that carries on after a failed call *)
tick_producer_ignoring_errors(pc, n, cfg, ok, flag, result) ==
    CASE pc = "hash" ->
             [pc |-> IF n + 1 < cfg.num - 1 THEN "hash" ELSE "tick",
              hashed |-> n + 1, result |-> result]
      [] pc = "sleep" -> [pc |-> "tick", hashed |-> n, result |-> result]
      [] pc = "tick" -> [pc |-> "check", hashed |-> n, result |-> result]
      [] pc = "check" ->
             IF flag THEN [pc |-> "returned", hashed |-> n, result |-> "Ok"]
             ELSE [pc |-> loop_top(cfg), hashed |-> 0, result |-> result]
      [] pc = "returned" -> [pc |-> "done", hashed |-> n, result |-> result]
      [] OTHER -> [pc |-> pc, hashed |-> n, result |-> result]

(* A thread whose batch of hashes is one too long *)
tick_producer_extra_hash(pc, n, cfg, ok, flag, result) ==
    CASE pc = "hash" ->
             IF ~ok THEN [pc |-> "returned", hashed |-> n, result |-> "Err"]
             ELSE [pc |-> IF n + 1 < cfg.num THEN "hash" ELSE "tick",
                   hashed |-> n + 1, result |-> result]
      [] pc = "sleep" -> [pc |-> "tick", hashed |-> n, result |-> result]
      [] pc = "tick" ->
             IF ~ok THEN [pc |-> "returned", hashed |-> n, result |-> "Err"]
             ELSE [pc |-> "check", hashed |-> n, result |-> result]
      [] pc = "check" ->
             IF flag THEN [pc |-> "returned", hashed |-> n, result |-> "Ok"]
             ELSE [pc |-> loop_top(cfg), hashed |-> 0, result |-> result]
      [] pc = "returned" -> [pc |-> "done", hashed |-> n, result |-> result]
      [] OTHER -> [pc |-> pc, hashed |-> n, result |-> result]

(* A thread that never looks at the flag *)
tick_producer_never_exits(pc, n, cfg, ok, flag, result) ==
    CASE pc = "hash" ->
             IF ~ok THEN [pc |-> "returned", hashed |-> n, result |-> "Err"]
             ELSE [pc |-> IF n + 1 < cfg.num - 1 THEN "hash" ELSE "tick",
                   hashed |-> n + 1, result |-> result]
      [] pc = "sleep" -> [pc |-> "tick", hashed |-> n, result |-> result]
      [] pc = "tick" ->
             IF ~ok THEN [pc |-> "returned", hashed |-> n, result |-> "Err"]
             ELSE [pc |-> "check", hashed |-> n, result |-> result]
      [] pc = "check" -> [pc |-> loop_top(cfg), hashed |-> 0, result |-> result]
      [] pc = "returned" -> [pc |-> "done", hashed |-> n, result |-> result]
      [] OTHER -> [pc |-> pc, hashed |-> n, result |-> result]

(* The thread's control flow: tick_producer's loop, then the closure's store.
   From the statement at pc, with n hashes done in the batch, a recorder call
   that returns ok, and the flag as loaded: the next statement, the hashes
   done, and the return value *)
tick_producer(pc, n, cfg, ok, flag, result) ==
    CASE pc = "hash" ->
             IF ~ok THEN [pc |-> "returned", hashed |-> n, result |-> "Err"]
             ELSE [pc |-> IF n + 1 < cfg.num - 1 THEN "hash" ELSE "tick",
                   hashed |-> n + 1, result |-> result]
      [] pc = "sleep" -> [pc |-> "tick", hashed |-> n, result |-> result]
      [] pc = "tick" ->
             IF ~ok THEN [pc |-> "returned", hashed |-> n, result |-> "Err"]
             ELSE [pc |-> "check", hashed |-> n, result |-> result]
      [] pc = "check" ->
             IF flag THEN [pc |-> "returned", hashed |-> n, result |-> "Ok"]
             ELSE [pc |-> loop_top(cfg), hashed |-> 0, result |-> result]
      [] pc = "returned" -> [pc |-> "done", hashed |-> n, result |-> result]
      [] OTHER -> [pc |-> pc, hashed |-> n, result |-> result]

(* The thread moves on from the statement it is at *)
Advance ==
    LET next == tick_producer(poh_pc, hashed, config, ~failing, poh_exit, poh_result)
    IN /\ poh_pc' = next.pc
       /\ hashed' = next.hashed
       /\ poh_result' = next.result

Called(name, ok) ==
    [op |-> name, result |-> IF ok THEN "Ok" ELSE "Failed", expected |-> InitialId]

(* poh.hash()? *)
PohHash ==
    /\ poh_pc = "hash"
    /\ Advance
    /\ poh_recorder' = IF failing THEN poh_recorder ELSE advance_hash(poh_recorder)
    /\ call' = Called("hash", ~failing)
    /\ UNCHANGED <<config, failing, delivered, poh_exit, expected, recorded,
                   exit_called, ticks_after_exit>>
    /\ UNCHANGED <<bank_vars, finality_thread_vars>>

(* sleep(duration) *)
PohSleep ==
    /\ poh_pc = "sleep"
    /\ Advance
    /\ UNCHANGED <<config, poh_recorder, failing, delivered, poh_exit, expected,
                   recorded, call, exit_called, ticks_after_exit>>
    /\ UNCHANGED <<bank_vars, finality_thread_vars>>

(* poh.tick()? *)
PohTick ==
    /\ poh_pc = "tick"
    /\ Advance
    /\ IF failing
       THEN UNCHANGED <<poh_recorder, delivered, ticks_after_exit>>
       ELSE /\ poh_recorder' = tick(poh_recorder).poh
            /\ delivered' = delivered \o tick(poh_recorder).batch
            /\ ticks_after_exit' = ticks_after_exit + (IF exit_called THEN 1 ELSE 0)
    /\ call' = Called("tick", ~failing)
    /\ UNCHANGED <<config, failing, poh_exit, expected, recorded, exit_called>>
    /\ UNCHANGED <<bank_vars, finality_thread_vars>>

(* if poh_exit.load(Ordering::Relaxed) { return Ok(()); }, and round the loop
   while the model has ticks left *)
PohCheck ==
    /\ poh_pc = "check"
    /\ poh_exit \/ poh_recorder.tick_height < MaxPohTicks
    /\ Advance
    /\ UNCHANGED <<config, poh_recorder, failing, delivered, poh_exit, expected,
                   recorded, call, exit_called, ticks_after_exit>>
    /\ UNCHANGED <<bank_vars, finality_thread_vars>>

(* poh_exit_.store(true, Ordering::Relaxed); return_value *)
PohStore ==
    /\ poh_pc = "returned"
    /\ Advance
    /\ poh_exit' = TRUE
    /\ UNCHANGED <<config, poh_recorder, failing, delivered, expected, recorded,
                   call, exit_called, ticks_after_exit>>
    /\ UNCHANGED <<bank_vars, finality_thread_vars>>

(* PohService::exit *)
PohExit ==
    /\ ~exit_called
    /\ poh_exit' = TRUE
    /\ exit_called' = TRUE
    /\ UNCHANGED <<config, poh_recorder, failing, delivered, poh_pc, hashed,
                   poh_result, expected, recorded, call, ticks_after_exit>>
    /\ UNCHANGED <<bank_vars, finality_thread_vars>>

(* The recorder's calls return errors from now on *)
RecorderFails ==
    /\ ~failing
    /\ failing' = TRUE
    /\ UNCHANGED <<config, poh_recorder, delivered, poh_pc, hashed, poh_result,
                   poh_exit, expected, recorded, call, exit_called, ticks_after_exit>>
    /\ UNCHANGED <<bank_vars, finality_thread_vars>>

(* A client of record reads the chain id it will expect *)
ClientReadBy(clients) ==
    \E c \in clients :
        /\ expected[c] # poh_recorder.id
        /\ expected' = [expected EXCEPT ![c] = poh_recorder.id]
        /\ UNCHANGED <<config, poh_recorder, failing, delivered, poh_pc, hashed,
                       poh_result, poh_exit, recorded, call, exit_called,
                       ticks_after_exit>>
        /\ UNCHANGED <<bank_vars, finality_thread_vars>>

(* poh_recorder.record(expected, vec![tx]), with the next transaction *)
ClientRecordBy(clients) ==
    \E c \in clients :
        LET r == record(poh_recorder, expected[c], <<Len(recorded) + 1>>)
            result == IF failing THEN "Failed" ELSE r.result
        IN /\ Len(recorded) < MaxRecords
           /\ poh_recorder' = IF failing THEN poh_recorder ELSE r.poh
           /\ recorded' = IF result = "Ok"
                           THEN Append(recorded, poh_recorder.tick_height)
                           ELSE recorded
           /\ call' = [op |-> "record", result |-> result, expected |-> expected[c]]
           /\ UNCHANGED <<config, failing, delivered, poh_pc, hashed, poh_result,
                          poh_exit, expected, exit_called, ticks_after_exit>>
           /\ UNCHANGED <<bank_vars, finality_thread_vars>>

(* The policies of the model: Tick(1) .. Tick(MaxHashesPerTick), and Sleep *)
Configs == {Tick(n) : n \in 1..MaxHashesPerTick} \cup {Sleep}

InitPoh ==
    /\ accounts = VoteAccounts
    /\ stake = [n \in VoteKeys |-> 1]
    /\ leader_id = 0
    /\ now = 1
    /\ tick_ts = <<>>
    /\ bank_finality = USIZE_MAX
    /\ last_valid_validator_timestamp = 0
    /\ op = "bank"
    /\ ix = NoInstruction
    /\ submitted = [k \in VoteKeys |-> <<>>]
    /\ cycle = NoCycle
    /\ step = 0
    /\ FinalityThreadNew
    /\ \E cfg \in Configs : PohServiceNew(cfg)

NextPoh ==
    \/ PohHash
    \/ PohSleep
    \/ PohTick
    \/ PohCheck
    \/ PohStore
    \/ PohExit
    \/ RecorderFails
    \/ ClientReadBy(Clients)
    \/ ClientRecordBy(Clients)

(* A step of the thread, seen on its position alone: every step of the five
   thread actions is one, and no other step of NextPoh moves poh_pc or hashed *)
PohStep ==
    LET next == tick_producer(poh_pc, hashed, config, ~failing, poh_exit, poh_result)
    IN poh_pc' = next.pc /\ hashed' = next.hashed

SpecPoh == InitPoh /\ [][NextPoh]_vars

(* The thread beside one recording client *)
OneClient == {CHOOSE c \in Clients : \A d \in Clients : c <= d}

NextPohOneClient ==
    \/ PohHash
    \/ PohSleep
    \/ PohTick
    \/ PohCheck
    \/ PohStore
    \/ PohExit
    \/ RecorderFails
    \/ ClientReadBy(OneClient)
    \/ ClientRecordBy(OneClient)

(* The thread is scheduled: a sleep and a recorder call end, and the statement
   after them runs *)
SpecPohFair ==
    InitPoh /\ [][NextPohOneClient]_vars /\ WF_<<poh_pc, hashed>>(PohStep)

-----------------------------------------------------------------------------
(* Claims about the vote program *)

VoteState(k) == deserialize(accounts[k].userdata)

(* C7: the stored vote queue never exceeds MAX_VOTE_HISTORY and holds exactly
   the min(n, MAX_VOTE_HISTORY) most recently accepted votes of the account,
   in submission order. *)
C7_QueueHoldsMostRecentVotes ==
    \A k \in DOMAIN accounts :
        VoteState(k).ok =>
            /\ Len(VoteState(k).state.votes) <= MAX_VOTE_HISTORY
            /\ VoteState(k).state.votes =
                   LastN(submitted[k], Min(Len(submitted[k]), MAX_VOTE_HISTORY))

(* After MAX_VOTE_HISTORY + 1 accepted votes, not all equal, the oldest is gone *)
C7_Witness ==
    \E k \in DOMAIN accounts :
        /\ VoteState(k).ok
        /\ Len(submitted[k]) = MAX_VOTE_HISTORY + 1
        /\ submitted[k][1] # submitted[k][2]
        /\ VoteState(k).state.votes = Tail(submitted[k])

(* C8: a rejected vote instruction leaves the stored data of every account as
   it was before the instruction. *)
C8_RejectedInstructionWritesNothing ==
    [][(op' = "instruction" /\ ix'.result # "Ok") => accounts' = accounts]_vars

(* A NewVote rejected because the stored bytes do not deserialize, while
   another account holds a registered state *)
C8_Witness ==
    /\ op = "instruction"
    /\ ix.tag = "NewVote"
    /\ ix.result = "InvalidUserdata"
    /\ \E k \in DOMAIN accounts : VoteState(k).ok

(* C9: an instruction whose first account is not a signer is rejected with
   InvalidArgument, whatever its instruction data decodes to. *)
C9_UnsignedIsRejected ==
    (op = "instruction" /\ ~ix.signed) => ix.result = "InvalidArgument"

(* Undecodable data sent unsigned gets the signer error, not the decoding one *)
C9_Witness ==
    /\ op = "instruction"
    /\ ~ix.signed
    /\ ix.tag = "Invalid"
    /\ ix.result = "InvalidArgument"

(* C10: a signed RegisterAccount whose target is owned by the vote program
   stores VoteProgram{votes: empty, node_id: signer} in the target and changes
   nothing else; with a target of another owner it returns InvalidArgument and
   writes nothing. *)
C10_RegisterWritesFreshState ==
    [][(op' = "instruction" /\ ix'.tag = "RegisterAccount" /\ ix'.signed) =>
          LET signer == ix'.keys[1]
              target == ix'.keys[2]
              stored == deserialize(accounts'[target].userdata)
          IN IF check_id(accounts[target].owner)
             THEN /\ ix'.result = "Ok"
                  /\ stored.ok
                  /\ stored.state = [node_id |-> signer, votes |-> <<>>]
                  /\ accounts'[target].owner = accounts[target].owner
                  /\ \A k \in DOMAIN accounts \ {target} : accounts'[k] = accounts[k]
             ELSE /\ ix'.result = "InvalidArgument"
                  /\ accounts' = accounts]_vars

(* A registration signed by a key other than the target's *)
C10_Witness ==
    /\ op = "instruction"
    /\ ix.tag = "RegisterAccount"
    /\ ix.result = "Ok"
    /\ VoteState(ix.keys[2]).ok
    /\ VoteState(ix.keys[2]).state = [node_id |-> ix.keys[1], votes |-> <<>>]

-----------------------------------------------------------------------------
(* Claims about the finality computation, stated over sets of accounts *)

(* Vote accounts of nodes other than the leader *)
Counted == {k \in DOMAIN accounts :
               /\ check_id(accounts[k].owner)
               /\ VoteState(k).ok
               /\ VoteState(k).state.node_id # leader_id}

(* Those of them that have at least one vote *)
Voters == {k \in Counted : VoteState(k).state.votes # <<>>}

LatestTick(k) == LET votes == VoteState(k).state.votes IN votes[Len(votes)]
StakeOf(k) == get_stake(stake, VoteState(k).state.node_id)

StakeOfAll(S) == SumOver([k \in S |-> StakeOf(k)], S)

(* Stake of the voters whose latest vote is at tick height T or above *)
StakeAtOrAbove(T) == StakeOfAll({k \in Voters : LatestTick(k) >= T})

(* Voted tick heights whose stake at or above reaches the threshold *)
Reaching(threshold) ==
    {T \in {LatestTick(k) : k \in Voters} : StakeAtOrAbove(T) >= threshold}

Recorded(T) == T \in 1..Len(tick_ts)

(* C1, as claimed: with total_stake the summed stake of the voters in the
   snapshot, the computation confirms the highest tick height whose stake at
   or above reaches floor(2 * total_stake / 3), with its recorded timestamp. *)
C1_AsClaimed ==
    (op = "compute_finality" /\ StakeOfAll(Voters) > 0) =>
        LET reaching == Reaching((2 * StakeOfAll(Voters)) \div 3) IN
        (reaching # {} /\ Recorded(SetMax(reaching))) =>
            /\ cycle.ok
            /\ cycle.timestamp = tick_ts[SetMax(reaching)]

(* C1, amended: total_stake is the summed stake of every vote account of a
   node other than the leader, voted or not.  When the voters hold stake, the
   computation confirms the highest tick height T whose stake at or above
   reaches floor(2 * total_stake / 3) and returns the timestamp recorded for
   T; it confirms nothing else. *)
C1_ConfirmsHighestSupermajorityTick ==
    (op = "compute_finality" /\ StakeOfAll(Voters) > 0) =>
        LET reaching == Reaching((2 * StakeOfAll(Counted)) \div 3) IN
        IF reaching # {} /\ Recorded(SetMax(reaching))
        THEN /\ cycle.ok
             /\ cycle.tick_height = Some(SetMax(reaching))
             /\ cycle.timestamp = tick_ts[SetMax(reaching)]
        ELSE ~cycle.ok

(* Two voters on different tick heights; the lower one is confirmed because
   the higher voter's stake alone is below the threshold, which counts the
   stake of an account that has not voted *)
C1_Witness ==
    /\ op = "compute_finality"
    /\ cycle.ok
    /\ Counted # Voters
    /\ StakeOfAll(Counted \ Voters) > 0
    /\ \E k \in Voters : LatestTick(k) > cycle.tick_height.value /\ StakeOf(k) > 0
    /\ cycle.timestamp = tick_ts[cycle.tick_height.value]

(* C2: the computation returns NoValidSupermajority when the total stake is 0,
   also when zero-stake voters have voted, and when no voted tick height has
   stake at or above it reaching floor(2 * total_stake / 3). *)
C2_NoSupermajorityWithoutStake ==
    (op = "compute_finality" /\
        \/ StakeOfAll(Counted) = 0
        \/ StakeOfAll(Voters) = 0
        \/ Reaching((2 * StakeOfAll(Counted)) \div 3) = {})
    => ~cycle.ok

(* Zero-stake voters have voted for a recorded tick height *)
C2_Witness ==
    /\ op = "compute_finality"
    /\ StakeOfAll(Counted) = 0
    /\ \E k \in Voters : Recorded(LatestTick(k))
    /\ ~cycle.ok

(* C6: a cycle that finds no supermajority leaves the bank's finality and the
   last confirmed timestamp as they were; a cycle that finds one sets the
   timestamp to the supermajority's and the finality to now minus it; nothing
   else writes them. *)
C6_FinalityStateFrame ==
    [][IF op' = "compute_finality" /\ cycle'.ok
       THEN /\ last_valid_validator_timestamp' = cycle'.timestamp
            /\ bank_finality' = now - cycle'.timestamp
       ELSE /\ last_valid_validator_timestamp' = last_valid_validator_timestamp
            /\ bank_finality' = bank_finality]_vars

(* A cycle without supermajority after one that had confirmed a timestamp *)
C6_Witness ==
    /\ op = "compute_finality"
    /\ ~cycle.ok
    /\ last_valid_validator_timestamp > 0
    /\ bank_finality # USIZE_MAX

-----------------------------------------------------------------------------
(* Claims about the scenario of test_compute_finality *)

(* C3: Scenario A.  Ten validators of stake 1, so a total stake of 10 and a
   threshold of 6; six of them have voted, one each for tick heights 1..6:
   the cycle confirms tick height 1 with the timestamp recorded for it. *)
C3_ScenarioAConfirmsTickOne ==
    (step = FirstCycleDone) =>
        /\ cycle.ok
        /\ cycle.tick_height = Some(1)
        /\ cycle.timestamp = tick_ts[1]

(* The state Scenario A describes, after the cycle *)
C3_Witness ==
    /\ step = FirstCycleDone
    /\ op = "compute_finality"
    /\ StakeOfAll(Counted) = 10
    /\ (2 * StakeOfAll(Counted)) \div 3 = 6
    /\ {LatestTick(k) : k \in Voters} = 1..6
    /\ Cardinality(Voters) = 6

(* C4: with six of ten equal-stake vote accounts having voted there is no
   supermajority: the cycle leaves the bank's finality at usize::MAX and the
   caller's timestamp at 0. *)
C4_SixOfTenIsNoSupermajority ==
    (step = FirstCycleDone) =>
        /\ bank_finality = USIZE_MAX
        /\ last_valid_validator_timestamp = 0

(* C5: Scenario B.  Once a seventh validator has voted tick height 7, the next
   cycle finds a supermajority; the confirmed tick height moves from 1 to 2,
   the bank's finality is set and the last confirmed timestamp is positive. *)
C5_ScenarioBAdvancesToTickTwo ==
    [][(step' = SecondCycleDone /\ step = SecondCycleDone - 1) =>
          /\ last_valid_validator_timestamp = tick_ts[1]
          /\ cycle'.ok
          /\ cycle'.tick_height = Some(2)
          /\ last_valid_validator_timestamp' = tick_ts[2]
          /\ last_valid_validator_timestamp' > last_valid_validator_timestamp
          /\ last_valid_validator_timestamp' > 0
          /\ bank_finality' # USIZE_MAX
          /\ bank_finality' = now - tick_ts[2]]_vars

(* The state Scenario B describes, after the second cycle *)
C5_Witness ==
    /\ step = SecondCycleDone
    /\ op = "compute_finality"
    /\ Cardinality(Voters) = 7
    /\ {LatestTick(k) : k \in Voters} = 1..7
    /\ cycle.ok


-----------------------------------------------------------------------------
(* The inputs of the finality computation *)

(* How many pairs of the cycle's input equal p *)
PairCount(p) ==
    Cardinality({i \in 1..Len(cycle.ticks_and_stakes) : cycle.ticks_and_stakes[i] = p})

(* The pair each voter is expected to contribute *)
PairOf(k) == <<LatestTick(k), StakeOf(k)>>

PairsAreTheVotersLatest ==
    /\ Len(cycle.ticks_and_stakes) = Cardinality(Voters)
    /\ \A k \in Voters :
           PairCount(PairOf(k)) = Cardinality({j \in Voters : PairOf(j) = PairOf(k)})

(* C19, as claimed: the leader's vote account and every vote account with no
   votes contribute neither a pair nor any stake to total_stake; every other
   vote account contributes the tick height of its latest vote. *)
C19_AsClaimed ==
    op = "compute_finality" =>
        /\ cycle.total_stake = StakeOfAll(Voters)
        /\ PairsAreTheVotersLatest

(* C19, amended: the leader's vote account contributes neither a pair nor
   stake; a vote account with no votes contributes no pair, but the stake of
   its node is counted in total_stake; every vote account with votes
   contributes one pair, the tick height of its latest vote with its stake. *)
C19_InputsOfTheComputation ==
    op = "compute_finality" =>
        /\ cycle.total_stake = StakeOfAll(Counted)
        /\ PairsAreTheVotersLatest

(* A cycle over a leader that has voted, a staked account that has not, and a
   validator whose newest vote differs from its oldest *)
C19_Witness ==
    /\ op = "compute_finality"
    /\ VoteState(VoteAccountOf(Leader)).state.votes # <<>>
    /\ StakeOfAll(Counted \ Voters) > 0
    /\ \E k \in Voters :
           /\ StakeOf(k) > 0
           /\ VoteState(k).state.votes[1] # LatestTick(k)


-----------------------------------------------------------------------------
(* The lifetime of a vote state *)

(* C20: once an account holds a vote state, every later instruction, a
   further RegisterAccount on the same account included, leaves the state in
   place with the same node_id, and changes the queue only by appending one
   vote with eviction of the oldest at capacity. *)
C20_RegisteredStateIsKept ==
    [][\A k \in DOMAIN accounts :
          VoteState(k).ok =>
              LET before == VoteState(k).state
                  after == deserialize(accounts'[k].userdata)
                  votes == after.state.votes
              IN /\ after.ok
                 /\ after.state.node_id = before.node_id
                 /\ \/ votes = before.votes
                    \/ /\ votes # <<>>
                       /\ votes = push_vote(before.votes, votes[Len(votes)])]_vars


-----------------------------------------------------------------------------
(* The finality polling thread *)

(* C18: the polling thread loads the exit flag once per iteration, before the
   computation and not during it; it ends only when the flag is set; after
   the flag is set it starts at most one more compute_finality call, and it
   ends. *)
C18_PollingThreadStopsOnExit ==
    /\ [](loads <= 1)
    /\ [](finality_pc \in {"compute", "sleep"} => loads = 1)
    /\ [](finality_pc = "done" => exit)
    /\ [](started_after_exit <= 1)
    /\ (exit ~> (finality_pc = "done"))

(* The flag was set between the load and the computation: the thread ran one
   more cycle and ended at the next load *)
C18_Witness ==
    /\ finality_pc = "done"
    /\ started_after_exit = 1
    /\ exit


-----------------------------------------------------------------------------
(* The PoH recorder and the PoH service *)

(* A step that ran record *)
RecordRan == call'.op = "record" /\ <<call, poh_recorder>>' # <<call, poh_recorder>>

(* C11: record succeeds only if the chain id, when record holds the guard,
   equals the prior id the caller expects; otherwise it returns a conflict,
   appends no entry and leaves the chain id and the hash counter as they
   were, whatever ticks, hashes and records ran since the caller read the
   id. *)
C11_RecordNeedsTheExpectedId ==
    [][RecordRan =>
          IF call'.result = "Ok"
          THEN /\ poh_recorder.id = call'.expected
               /\ poh_recorder'.id # poh_recorder.id
               /\ Len(poh_recorder'.pending) = Len(poh_recorder.pending) + 1
               /\ poh_recorder'.pending[Len(poh_recorder'.pending)].num_hashes = 1
               /\ poh_recorder'.pending[Len(poh_recorder'.pending)].id = poh_recorder'.id
          ELSE /\ poh_recorder' = poh_recorder
               /\ delivered' = delivered
               /\ ~failing => /\ call'.result = "Conflict"
                              /\ poh_recorder.id # call'.expected]_vars

(* A record refused after another client's record and a tick moved the chain *)
C11_Witness ==
    /\ call.op = "record"
    /\ call.result = "Conflict"
    /\ ~failing
    /\ Len(recorded) >= 1
    /\ poh_recorder.tick_height >= 1
    /\ poh_recorder.num_hashes >= 1

Transactions(entries) == {entries[i].transactions[1] : i \in {j \in 1..Len(entries) : ~is_tick(entries[j])}}

(* Places of the delivered entries that hold transaction tx *)
EntriesWith(tx) ==
    {i \in 1..Len(delivered) : ~is_tick(delivered[i]) /\ delivered[i].transactions[1] = tx}

TicksBefore(i) == Cardinality({j \in 1..(i - 1) : is_tick(delivered[j])})

IsPrefix(a, b) == Len(a) <= Len(b) /\ SubSeq(b, 1, Len(a)) = a

(* C12, as claimed, on a run whose cadence thread has ended with no error
   from the recorder: every transaction of a successful record is in exactly
   one delivered entry, ahead of the tick that followed the record. *)
C12_AsClaimed ==
    (poh_pc = "done" /\ ~failing) =>
        \A tx \in 1..Len(recorded) :
            /\ Cardinality(EntriesWith(tx)) = 1
            /\ \A i \in EntriesWith(tx) : TicksBefore(i) = recorded[tx]

(* C12, amended: a transaction of a successful record is delivered by the
   next tick and not before: once that tick has run, the transaction is in
   exactly one delivered entry, ahead of that tick's entry; until then it is
   in no delivered entry and waits in the recorder.  Entries are delivered in
   chain order.  A transaction recorded after the last tick is not delivered. *)
C12_DeliveredWithTheNextTick ==
    /\ \A tx \in 1..Len(recorded) :
           IF poh_recorder.tick_height > recorded[tx]
           THEN /\ Cardinality(EntriesWith(tx)) = 1
                /\ \A i \in EntriesWith(tx) : TicksBefore(i) = recorded[tx]
                /\ tx \notin Transactions(poh_recorder.pending)
           ELSE /\ EntriesWith(tx) = {}
                /\ tx \in Transactions(poh_recorder.pending)
    /\ \A i, j \in 1..Len(delivered) :
           i < j => IsPrefix(delivered[i].id, delivered[j].id)

(* One transaction delivered with its tick, another recorded after the last
   tick of a thread that has ended *)
C12_Witness ==
    /\ poh_pc = "done"
    /\ Len(recorded) = 2
    /\ EntriesWith(1) # {}
    /\ EntriesWith(2) = {}
    /\ 2 \in Transactions(poh_recorder.pending)

(* A step that ran tick with success *)
TickRan == poh_recorder'.tick_height # poh_recorder.tick_height

IdleHashes(cfg) == IF cfg.kind = "Tick" THEN cfg.num - 1 ELSE 0

(* C13: the entry of a tick counts the hash() calls since the previous tick,
   the records in between not among them; the tick resets the hash counter
   and adds one to the tick height. *)
C13_TickCountsTheIdleHashes ==
    [][TickRan =>
          LET entry == delivered'[Len(delivered')] IN
          /\ is_tick(entry)
          /\ entry.num_hashes = hashed
          /\ entry.num_hashes = IdleHashes(config)
          /\ entry.id = poh_recorder.id
          /\ poh_recorder'.num_hashes = 0
          /\ poh_recorder'.tick_height = poh_recorder.tick_height + 1]_vars

(* The second tick of a thread that hashes once a tick, a record in between *)
C13_Witness ==
    /\ call.op = "tick"
    /\ call.result = "Ok"
    /\ poh_recorder.tick_height = 2
    /\ delivered[Len(delivered)].num_hashes = 1
    /\ \E i \in 1..Len(delivered) : ~is_tick(delivered[i]) /\ TicksBefore(i) = 1


RECURSIVE HashesSince(_)
(* The test's running sum at place j of the delivered entries: num_hashes - 1
   of the transaction entries since the previous tick, and num_hashes of a
   tick *)
HashesSince(j) ==
    IF j = 0 THEN 0
    ELSE IF is_tick(delivered[j])
         THEN delivered[j].num_hashes
              + (IF j > 1 /\ ~is_tick(delivered[j - 1]) THEN HashesSince(j - 1) ELSE 0)
         ELSE (delivered[j].num_hashes - 1)
              + (IF j > 1 /\ ~is_tick(delivered[j - 1]) THEN HashesSince(j - 1) ELSE 0)

(* C14: under Config::Tick(N), with records running beside the thread, every
   tick entry has num_hashes <= N, every transaction entry has
   num_hashes >= 1, and at every tick the sum of num_hashes - 1 over the
   transaction entries since the previous tick plus the tick's num_hashes
   is N. *)
C14_HashesPerTickAddUp ==
    config.kind = "Tick" =>
        \A j \in 1..Len(delivered) :
            IF is_tick(delivered[j])
            THEN /\ delivered[j].num_hashes <= config.num
                 /\ HashesSince(j) = config.num
            ELSE delivered[j].num_hashes >= 1

(* C15: after PohService::exit, with a recorder that keeps succeeding, the
   thread delivers at most one more tick and returns Ok at the check that
   follows a tick, never inside a batch of hashes; it has then delivered at
   least one tick, even if exit came before its first statement; and it
   ends. *)
C15_ExitStopsTheThreadAfterOneTick ==
    /\ [](ticks_after_exit <= 1)
    /\ [](poh_result = "Ok" =>
             /\ exit_called
             /\ hashed = IdleHashes(config)
             /\ poh_recorder.tick_height >= 1
             /\ is_tick(delivered[Len(delivered)]))
    /\ []((poh_pc = "done" /\ ~failing) => poh_result = "Ok")
    /\ (exit_called ~> (poh_pc = "done"))

(* exit came before the first tick of a hashing thread, which delivered that
   tick and ended *)
C15_Witness ==
    /\ poh_pc = "done"
    /\ poh_result = "Ok"
    /\ config.kind = "Tick"
    /\ poh_recorder.tick_height = 1
    /\ ticks_after_exit = 1

(* C16: the flag an observer polls for the thread's death is apart from the
   flag that asks it to stop: when it reads true, the thread has left its
   loop and delivers no tick afterwards. *)
C16_CompletionFlagMeansExited ==
    poh_exit => poh_pc \in {"returned", "done"}

(* A step in which the thread's recorder call failed *)
ThreadCallFailed ==
    /\ poh_pc \in {"hash", "tick"}
    /\ failing
    /\ <<poh_pc, hashed>>' # <<poh_pc, hashed>>

(* C17: when hash() or tick() returns an error the thread leaves the loop at
   that statement with the error as its return value, which join yields; the
   thread stores true in poh_exit on its way out, after an error as after a
   requested exit, and calls the recorder no more. *)
C17_ErrorEndsTheThread ==
    /\ [](poh_pc = "done" => (poh_exit /\ poh_result \in {"Ok", "Err"}))
    /\ [](poh_result # "running" <=> poh_pc \in {"returned", "done"})
    /\ [][ThreadCallFailed =>
             /\ poh_pc' = "returned"
             /\ poh_result' = "Err"
             /\ poh_recorder' = poh_recorder
             /\ delivered' = delivered]_vars
    /\ [][poh_result # "running" =>
             /\ poh_result' = poh_result
             /\ delivered' = delivered
             /\ poh_pc' \in {"returned", "done"}]_vars

(* A tick failed with no exit asked: the thread ended with the error and the
   flag set *)
C17_Witness ==
    /\ poh_pc = "done"
    /\ poh_result = "Err"
    /\ poh_exit
    /\ ~exit_called
    /\ call.op = "tick"
    /\ call.result = "Failed"
    /\ poh_recorder.tick_height >= 1


-----------------------------------------------------------------------------
(* The owner of a voting account *)

(* C21: a signed NewVote on an account that the vote program does not own
   returns InvalidArgument, the owner's error and not the one that reading
   the stored state would give, and writes nothing; a NewVote that writes was
   signed, on an account the vote program owns, and appended its vote there. *)
C21_NewVoteNeedsAVoteAccount ==
    [][(op' = "instruction" /\ ix'.tag = "NewVote") =>
          LET k == ix'.keys[1]
              before == deserialize(accounts[k].userdata)
              after == deserialize(accounts'[k].userdata)
          IN /\ (ix'.signed /\ ~check_id(accounts[k].owner)) =>
                    /\ ix'.result = "InvalidArgument"
                    /\ accounts' = accounts
             /\ (ix'.result = "Ok" \/ accounts' # accounts) =>
                    /\ ix'.signed
                    /\ check_id(accounts[k].owner)
                    /\ before.ok /\ after.ok
                    /\ after.state.votes # <<>>
                    /\ after.state.votes =
                           push_vote(before.state.votes,
                                     after.state.votes[Len(after.state.votes)])
                    /\ \A j \in DOMAIN accounts \ {k} : accounts'[j] = accounts[j]]_vars

(* A signed NewVote refused for its owner on an account whose bytes would not
   have deserialized either, while a vote account holds an accepted vote *)
C21_Witness ==
    /\ op = "instruction"
    /\ ix.tag = "NewVote"
    /\ ix.signed
    /\ ~check_id(accounts[ix.keys[1]].owner)
    /\ ~VoteState(ix.keys[1]).ok
    /\ ix.result = "InvalidArgument"
    /\ \E k \in DOMAIN accounts : VoteState(k).ok /\ VoteState(k).state.votes # <<>>

====
